---- MODULE Spec2Model ----
(***************************************************************************)
(* The execution core of the horst-lang bytecode VM (src/src/vm.rs): the   *)
(* value stack, the frame stack, the open-upvalue list and the heap, with  *)
(* one action per instruction of VM::run.                                  *)
(*                                                                         *)
(* The chunk of a function is produced by the compiler, which is not part  *)
(* of the VM: the instruction fetched at frame.ip is an input of every     *)
(* step, drawn from the instruction set with small operands.  The guards   *)
(* marked "well-formed" state what compiled bytecode guarantees (operands  *)
(* address existing slots, a captured local is discarded with              *)
(* CloseUpvalue and any other slot with Pop, a frame never pops its own    *)
(* callee slot).  What the compiler knows statically about captured locals *)
(* is the history variable captured.  Stack slots, bases and heap ids are 0-based as in the    *)
(* code; TLA+ sequences are 1-based, so stack[i] of the code is At(stk, i).*)
(*                                                                         *)
(* A Rust panic ends the process: it is the terminal status "panic", and    *)
(* error is the panic's message.  host_args is the argument vector the     *)
(* last native call handed to the host function, inherited the pairs       *)
(* <<subclass, superclass>> of the Inherit instructions that completed.    *)
(***************************************************************************)
EXTENDS Integers, Sequences, FiniteSets, TLC

VARIABLES stack, frames, globals, open_upvalues, objects, next_id, status,
          error, last, written, captured, host_args, inherited, fuel

vars ==
    <<stack, frames, globals, open_upvalues, objects, next_id, status, error,
      last, written, captured, host_args, inherited, fuel>>

\* ---------------------------------------------------------------- bounds
MaxStack == 5
MaxFrames == 2
MaxHeap == 2
\* The number of instructions a run executes: under Spec, and under
\* SpecShared (the longer runs a closure that outlives its block needs).
MaxSteps == 8
MaxSharedSteps == 13
\* The number of heap objects a run with classes allocates.
MaxObjects == 4
\* The number of instructions a run executes under SpecClasses and under
\* SpecProperties.
MaxClassSteps == 7
MaxPropertySteps == 9
\* The number of instructions a run executes under SpecNatives.
MaxNativeSteps == 6
\* The number of instructions a run executes under SpecInherit and under
\* SpecSuper.
MaxInheritSteps == 11
MaxSuperSteps == 9
MaxHeapSteps == 7
MaxGlobalSteps == 6
MaxJumpSteps == 5
MaxOffset == 2

\* ---------------------------------------------------------------- values
Nil == [tag |-> "Nil"]

Number(n) == [tag |-> "Number", n |-> n]

Boolean(b) == [tag |-> "Boolean", b |-> b]

\* Value::is_falsey (crate::value): Nil and Boolean(false) are falsey.
is_falsey(value) == value = Nil \/ value = Boolean(FALSE)

FunctionValue(function) == [tag |-> "Function", function |-> function]

Closure(function, upvalues) ==
    [tag |-> "Closure", function |-> function, upvalues |-> upvalues]

\* UpvalueRegistry, the heap object of an upvalue cell.
Open(slot) == [kind |-> "Upvalue", state |-> "Open", slot |-> slot]

Closed(value) == [kind |-> "Upvalue", state |-> "Closed", value |-> value]

FunctionUpvalue(index, is_local) == [index |-> index, is_local |-> is_local]

\* A Function: arity and upvalue descriptors.  The instructions of its chunk
\* are the inputs of the steps that run it.
Function(name, arity, upvalues) ==
    [name |-> name, arity |-> arity, upvalues |-> upvalues]

CallFrame(function, ip, base, upvalues) ==
    [function |-> function, ip |-> ip, base |-> base, upvalues |-> upvalues]

String(s) == [tag |-> "String", s |-> s]

ClassValue(id) == [tag |-> "Class", id |-> id]

InstanceValue(id) == [tag |-> "Instance", id |-> id]

BoundMethod(receiver, function, upvalues) ==
    [tag |-> "BoundMethod", receiver |-> receiver, function |-> function,
     upvalues |-> upvalues]

\* A NativeFunction: the host function it wraps, by name.
NativeFunction(function) == [tag |-> "NativeFunction", function |-> function]

\* HashMap<String, Value>: a function from the keys present to their values.
EmptyMap == <<>>

Insert(map, key, value) ==
    [k \in DOMAIN map \cup {key} |-> IF k = key THEN value ELSE map[k]]

\* The heap objects Class and Instance (crate::class, crate::instance).
ClassObject(name, methods) ==
    [kind |-> "Class", name |-> name, methods |-> methods]

InstanceObject(class, fields) ==
    [kind |-> "Instance", class |-> class, fields |-> fields]

\* Class::new and Instance::new: no methods, no fields.
Class_new(name) == ClassObject(name, EmptyMap)

Instance_new(class) == InstanceObject(class, EmptyMap)

\* -------------------------------------------------------------- panics
\* The messages of the panics of the VM; NoError while none has happened.
NoError == ""

IndexOutOfBounds == "index out of bounds"

UnwrapNone == "called Option::unwrap() on a None value"

ExpectedOpenUpvalue == "Expected open upvalue."

ArityMismatch == "Expected {} arguments but got {}."

NotCallable == "Can only call functions and classes."

ExpectedFunction == "Expected function."

ExpectedFunctionOrClosure == "Expected function or closure."

ExpectedClass == "Expected class."

UndefinedProperty == "Undefined property '{}'."

UndefinedVariable == "Undefined variable '{}'."

OnlyInstancesHaveProperties == "Only instances have properties."

OnlyInstancesHaveFields == "Only instances have fields."

OnlyInstancesHaveMethods == "Only instances have methods."

OnlyClassesHaveSuperclass == "Only classes have superclass."

SuperclassMustBeAClass == "Superclass must be a class."

FirstArgumentMustBeAString == "First argument must be a string"

FirstArgumentMustBeAMap == "First argument must be a map"

SecondArgumentMustBeAString == "Second argument must be a string"

UserPanic == "{message}"

\* ---------------------------------------------------------------- inputs
\* The top-level function handed to interpret: no parameters, no upvalues.
Script == Function("script", 0, <<>>)

\* Function constants of the constant pools: what Closure(k) can read.
FunctionConstants ==
    { Function("a", 0, <<FunctionUpvalue(1, TRUE)>>),
      Function("b", 0, <<FunctionUpvalue(2, TRUE), FunctionUpvalue(1, TRUE)>>),
      Function("c", 0, <<FunctionUpvalue(0, FALSE)>>) }

\* Plain constants of the constant pools: what Constant(k) can read.
ValueConstants == { Number(1), FunctionValue(Function("f", 1, <<>>)) }

ArgCounts == 0 .. 1

LocalIndexes == 1 .. 2

UpvalueIndexes == 0 .. 1

\* ---------------------------------------------------------------- helpers
At(stk, i) == stk[i + 1]

Put(stk, i, v) == [stk EXCEPT ![i + 1] = v]

Push(stk, v) == Append(stk, v)

PopSeq(s) == SubSeq(s, 1, Len(s) - 1)

Truncate(stk, len) == IF len < Len(stk) THEN SubSeq(stk, 1, len) ELSE stk

frame == frames[Len(frames)]

\* CallFrame::get_upvalue (crate::frame): the index-th cell id of the frame.
frame_get_upvalue(fr, index) == fr.upvalues[index + 1]

NoValue == [tag |-> "NoValue"]

\* The history of the run, for stating the claims: the instruction executed
\* by the last step.
Executed(op, n) == [op |-> op, n |-> n]

\* The same for an instruction that names a property, method or global.
ExecutedNamed(op, name, n) == [op |-> op, n |-> n, name |-> name]

\* written[c]: the value of the last SetUpvalue through cell c, NoValue when
\* there was none or the captured local was assigned directly since.
Track(objs, w) ==
    [c \in DOMAIN objs |-> IF c \in DOMAIN w THEN w[c] ELSE NoValue]

\* ------------------------------------------------------------------ heap
\* new_collectable without the increment of next_id: ids are handed out twice.
new_collectable_same_id(objs, nid, collectable) ==
    [id |-> nid,
     objects |-> [i \in DOMAIN objs \cup {nid} |->
                     IF i = nid THEN collectable ELSE objs[i]],
     next_id |-> nid]

\* VM::new_collectable: the id, the heap with the object and the counter.
new_collectable(objs, nid, collectable) ==
    [id |-> nid,
     objects |-> [i \in DOMAIN objs \cup {nid} |->
                     IF i = nid THEN collectable ELSE objs[i]],
     next_id |-> nid + 1]

\* VM::get_collectable::<UpvalueRegistry>: is the object an upvalue cell.
IsUpvalue(objs, id) == id \in DOMAIN objs /\ objs[id].kind = "Upvalue"

IsOpenAt(objs, id, index) ==
    IsUpvalue(objs, id) /\ objs[id].state = "Open" /\ objs[id].slot = index

\* ------------------------------------------------------------- upvalues
\* The position in the open list of the first cell that is Open(index), 0
\* when there is none: the iter().find of capture_upvalue.
FindOpen(open, objs, index) ==
    LET hits == { k \in 1 .. Len(open) : IsOpenAt(objs, open[k], index) }
    IN  IF hits = {} THEN 0 ELSE CHOOSE k \in hits : \A j \in hits : k <= j

\* capture_upvalue without the search of the open list: always a new cell.
capture_upvalue_always_new(st, index) ==
    LET new == [id |-> st.next_id,
                objects |-> [i \in DOMAIN st.objects \cup {st.next_id} |->
                                IF i = st.next_id THEN Open(index)
                                ELSE st.objects[i]],
                next_id |-> st.next_id + 1]
    IN  [ref |-> new.id,
         st |-> [open_upvalues |-> Append(st.open_upvalues, new.id),
                 objects |-> new.objects,
                 next_id |-> new.next_id]]

\* VM::capture_upvalue on the state st = [open_upvalues, objects, next_id]:
\* the cell's id and the state after.
capture_upvalue(st, index) ==
    LET k == FindOpen(st.open_upvalues, st.objects, index)
    IN  IF k # 0
        THEN [ref |-> st.open_upvalues[k], st |-> st]
        ELSE LET new == new_collectable(st.objects, st.next_id, Open(index))
             IN  [ref |-> new.id,
                  st |-> [open_upvalues |-> Append(st.open_upvalues, new.id),
                          objects |-> new.objects,
                          next_id |-> new.next_id]]

\* The loop of make_closure pushing a cell for the is_local descriptors only.
RECURSIVE ResolveUpvalues_locals_only(_, _, _, _, _)
ResolveUpvalues_locals_only(upvals, k, acc, st, fr) ==
    IF k > Len(upvals)
    THEN [upvalues |-> acc, st |-> st]
    ELSE IF upvals[k].is_local
         THEN LET cap == capture_upvalue(st, fr.base + upvals[k].index)
              IN  ResolveUpvalues_locals_only(upvals, k + 1,
                                              Append(acc, cap.ref), cap.st, fr)
         ELSE ResolveUpvalues_locals_only(upvals, k + 1, acc, st, fr)

\* The loop of VM::make_closure over the descriptors upvals[k..]: the cell
\* ids collected in acc and the state after.
RECURSIVE ResolveUpvalues(_, _, _, _, _)
ResolveUpvalues(upvals, k, acc, st, fr) ==
    IF k > Len(upvals)
    THEN [upvalues |-> acc, st |-> st]
    ELSE IF upvals[k].is_local
         THEN LET cap == capture_upvalue(st, fr.base + upvals[k].index)
              IN  ResolveUpvalues(upvals, k + 1, Append(acc, cap.ref), cap.st, fr)
         ELSE ResolveUpvalues(upvals, k + 1,
                              Append(acc, frame_get_upvalue(fr, upvals[k].index)),
                              st, fr)

\* close that leaves the cell as it is.
close_stays_open(upvalue, value) == upvalue

\* UpvalueRegistry::close.
close(upvalue, value) == Closed(value)

\* VM::close_upvalues(index) on the open list and the heap, reading stk:
\* the list and the heap after, and whether the loop panicked (an open cell
\* whose slot is past the end of the stack, or a cell that is not Open).
RECURSIVE close_upvalues(_, _, _, _)
close_upvalues(open, objs, stk, index) ==
    IF open = <<>>
    THEN [open_upvalues |-> open, objects |-> objs, panic |-> FALSE,
          error |-> NoError]
    ELSE LET upvalue_ref == open[Len(open)]
             upvalue == objs[upvalue_ref]
         IN  IF upvalue.state # "Open"
             THEN [open_upvalues |-> open, objects |-> objs, panic |-> TRUE,
                   error |-> ExpectedOpenUpvalue]
             ELSE IF upvalue.slot <= index
             THEN [open_upvalues |-> open, objects |-> objs, panic |-> FALSE,
                   error |-> NoError]
             ELSE IF upvalue.slot >= Len(stk)
             THEN [open_upvalues |-> PopSeq(open), objects |-> objs,
                   panic |-> TRUE, error |-> IndexOutOfBounds]
             ELSE close_upvalues(
                      PopSeq(open),
                      [objs EXCEPT ![upvalue_ref] =
                          close(upvalue, At(stk, upvalue.slot))],
                      stk, index)

\* ---------------------------------------------------------------- calls
\* call with the frame's base one slot too high (the callee slot forgotten).
call_base_off_by_one(frs, stk, function, upvalues, arg_count) ==
    IF arg_count # function.arity
    THEN [frames |-> frs, panic |-> TRUE]
    ELSE [frames |-> Append(frs, CallFrame(function, 0,
                                           Len(stk) - arg_count, upvalues)),
          panic |-> FALSE]

\* call with the new frame's base at the caller's base.
call_base_of_caller(frs, stk, function, upvalues, arg_count) ==
    IF arg_count # function.arity
    THEN [frames |-> frs, panic |-> TRUE]
    ELSE [frames |-> Append(frs, CallFrame(function, 0,
                                           IF frs = <<>> THEN 0
                                           ELSE frs[Len(frs)].base, upvalues)),
          panic |-> FALSE]

\* VM::call: the frame stack after, and whether the arity check panicked.
call(frs, stk, function, upvalues, arg_count) ==
    IF arg_count # function.arity
    THEN [frames |-> frs, panic |-> TRUE]
    ELSE [frames |-> Append(frs, CallFrame(function, 0,
                                           Len(stk) - arg_count - 1, upvalues)),
          panic |-> FALSE]

\* The state the handlers of the VM work on: the fields of the VM they read
\* and write, the message of the panic that stopped them (NoError when they
\* ran to their end) and the argument vector handed to a host function.
VMState(stk, frs, objs, nid, args) ==
    [stack |-> stk, frames |-> frs, objects |-> objs, next_id |-> nid,
     error |-> NoError, host_args |-> args]

\* panic!(message).
Fail(vm, message) == [vm EXCEPT !.error = message]

\* VM::error (not in vm.rs): a fatal error, the process ends.
vm_error(vm, message) == Fail(vm, message)

\* VM::call on the state: an arity mismatch panics, else the frame is pushed.
call_frame(vm, function, upvalues, arg_count) ==
    LET called == call(vm.frames, vm.stack, function, upvalues, arg_count)
    IN  IF called.panic
        THEN Fail(vm, ArityMismatch)
        ELSE [vm EXCEPT !.frames = called.frames]

\* VM::pop_many: pops of an empty stack do nothing.
pop_many(stk, count) ==
    IF count >= Len(stk) THEN <<>> ELSE SubSeq(stk, 1, Len(stk) - count)

\* ------------------------------------------------------ native functions
\* s.parse::<f64>() on the strings of this model: "1" is a number, the
\* others are not.
parse(s) == IF s = "1" THEN [ok |-> TRUE, number |-> 1]
            ELSE [ok |-> FALSE, number |-> 0]

\* native_functions.rs number: the last argument must be a string; the
\* number it spells, or Nil.
number(args, vm) ==
    IF args # <<>> /\ args[Len(args)].tag = "String"
    THEN LET parsed == parse(args[Len(args)].s)
         IN  [value |-> IF parsed.ok THEN Number(parsed.number) ELSE Nil,
              vm |-> vm]
    ELSE [value |-> Nil, vm |-> vm_error(vm, FirstArgumentMustBeAString)]

\* native_functions.rs panic: the last argument must be a string; a fatal
\* error with that message.
panic(args, vm) ==
    IF args # <<>> /\ args[Len(args)].tag = "String"
    THEN [value |-> Nil, vm |-> vm_error(vm, UserPanic)]
    ELSE [value |-> Nil, vm |-> vm_error(vm, FirstArgumentMustBeAString)]

\* vm.gc.deref / deref_mut (not in vm.rs): the instance with that id.
gc_deref(vm, id) == vm.objects[id]

\* native_functions.rs map_get: args.remove(0) is the map, the next
\* args.remove(0) the key; the field of that key, or Nil.
map_get(args, vm) ==
    IF args = <<>>
    THEN [value |-> Nil, vm |-> Fail(vm, IndexOutOfBounds)]
    ELSE IF args[1].tag # "Instance"
    THEN [value |-> Nil, vm |-> Fail(vm, FirstArgumentMustBeAMap)]
    ELSE IF Len(args) < 2
    THEN [value |-> Nil, vm |-> Fail(vm, IndexOutOfBounds)]
    ELSE IF args[2].tag # "String"
    THEN [value |-> Nil, vm |-> Fail(vm, SecondArgumentMustBeAString)]
    ELSE LET map == gc_deref(vm, args[1].id)
             key == args[2].s
         IN  [value |-> IF key \in DOMAIN map.fields
                        THEN map.fields[key] ELSE Nil,
              vm |-> vm]

\* native_functions.rs map_set: args.remove(0) is the map, the next
\* args.remove(0) the key, args.pop() the value; the field is stored, Nil.
map_set(args, vm) ==
    IF args = <<>>
    THEN [value |-> Nil, vm |-> Fail(vm, IndexOutOfBounds)]
    ELSE IF args[1].tag # "Instance"
    THEN [value |-> Nil, vm |-> Fail(vm, FirstArgumentMustBeAMap)]
    ELSE IF Len(args) < 2
    THEN [value |-> Nil, vm |-> Fail(vm, IndexOutOfBounds)]
    ELSE IF args[2].tag # "String"
    THEN [value |-> Nil, vm |-> Fail(vm, SecondArgumentMustBeAString)]
    ELSE IF Len(args) < 3
    THEN [value |-> Nil, vm |-> Fail(vm, UnwrapNone)]
    ELSE LET id == args[1].id
             map == gc_deref(vm, id)
             stored == [map EXCEPT !.fields =
                           Insert(map.fields, args[2].s, args[Len(args)])]
         IN  [value |-> Nil,
              vm |-> [vm EXCEPT !.objects = [vm.objects EXCEPT ![id] = stored]]]

\* native_functions.rs make_map: the class Map and its native methods.  The
\* rendering of toString is not modelled: its entry is left out.
make_map ==
    ClassObject("Map", Insert(Insert(EmptyMap,
                    "get", NativeFunction("map_get")),
                    "set", NativeFunction("map_set")))

\* (function.function)(args, self): the host function of a NativeFunction.
host_function(function, args, vm) ==
    CASE function = "number" -> number(args, vm)
      [] function = "panic" -> panic(args, vm)
      [] function = "map_get" -> map_get(args, vm)
      [] function = "map_set" -> map_set(args, vm)

\* ------------------------------------------------------------ call_value
\* call_value on a class that never calls init.
call_class_without_init(vm, callee, arg_count) ==
    LET new == new_collectable(vm.objects, vm.next_id, Instance_new(callee.id))
        l == Len(vm.stack)
        made == [vm EXCEPT !.objects = new.objects,
                           !.next_id = new.next_id,
                           !.stack = Put(vm.stack, l - arg_count - 1,
                                         InstanceValue(new.id))]
    IN  IF arg_count # 0 THEN Fail(made, ArityMismatch) ELSE made

\* VM::call_value, Value::Class: a new instance replaces the callee slot,
\* then init is called if the class has one; without init there must be no
\* arguments.
call_class(vm, callee, arg_count) ==
    LET new == new_collectable(vm.objects, vm.next_id, Instance_new(callee.id))
        l == Len(vm.stack)
        made == [vm EXCEPT !.objects = new.objects,
                           !.next_id = new.next_id,
                           !.stack = Put(vm.stack, l - arg_count - 1,
                                         InstanceValue(new.id))]
        class == made.objects[callee.id]
    IN  IF "init" \in DOMAIN class.methods
        THEN LET init == class.methods["init"]
             IN  CASE init.tag = "Closure" ->
                          call_frame(made, init.function, init.upvalues, arg_count)
                   [] init.tag = "Function" ->
                          call_frame(made, init.function, <<>>, arg_count)
                   [] OTHER -> Fail(made, ExpectedFunction)
        ELSE IF arg_count # 0
             THEN Fail(made, ArityMismatch)
             ELSE made

\* call_value on a bound method that leaves the bound method in its slot.
call_bound_method_keeps_callee(vm, callee, arg_count) ==
    call_frame(vm, callee.function, callee.upvalues, arg_count)

\* VM::call_value, Value::BoundMethod: the receiver replaces the callee
\* slot, then the method is called.
call_bound_method(vm, callee, arg_count) ==
    LET l == Len(vm.stack)
        bound == [vm EXCEPT !.stack = Put(vm.stack, l - arg_count - 1,
                                          InstanceValue(callee.receiver))]
    IN  call_frame(bound, callee.function, callee.upvalues, arg_count)

\* call_value on a native that hands the host function the callee as well.
call_native_with_callee(vm, callee, arg_count) ==
    LET from == Len(vm.stack) - arg_count - 1
        args == SubSeq(vm.stack, from + 1, Len(vm.stack))
        result == host_function(callee.function, args,
                                [vm EXCEPT !.host_args = args])
    IN  IF result.vm.error # NoError
        THEN result.vm
        ELSE [result.vm EXCEPT
                 !.stack = Push(pop_many(result.vm.stack, arg_count + 1),
                                result.value)]

\* VM::call_value, Value::NativeFunction: the host function gets the top
\* arg_count values; callee and arguments are popped, the result is pushed.
call_native(vm, callee, arg_count) ==
    LET from == Len(vm.stack) - arg_count
        args == SubSeq(vm.stack, from + 1, Len(vm.stack))
        result == host_function(callee.function, args,
                                [vm EXCEPT !.host_args = args])
    IN  IF result.vm.error # NoError
        THEN result.vm
        ELSE [result.vm EXCEPT
                 !.stack = Push(pop_many(result.vm.stack, arg_count + 1),
                                result.value)]

\* VM::call_value.
call_value(vm, callee, arg_count) ==
    CASE callee.tag = "Closure" ->
             call_frame(vm, callee.function, callee.upvalues, arg_count)
      [] callee.tag = "Function" ->
             call_frame(vm, callee.function, <<>>, arg_count)
      [] callee.tag = "Class" -> call_class(vm, callee, arg_count)
      [] callee.tag = "BoundMethod" -> call_bound_method(vm, callee, arg_count)
      [] callee.tag = "NativeFunction" -> call_native(vm, callee, arg_count)
      [] OTHER -> Fail(vm, NotCallable)

\* VM::call_value_from_stack.
call_value_from_stack(vm, arg_count) ==
    call_value(vm, At(vm.stack, Len(vm.stack) - 1 - arg_count), arg_count)

\* ----------------------------------------------------------------- init
\* VM::new followed by VM::interpret up to the dispatch loop, on a heap and
\* globals the host has prepared (VM::new: both empty): the top-level
\* closure is pushed and called with no arguments.
interpret_on(function, objs, nid, globs) ==
    LET closure == Closure(function, <<>>)
        pushed == Push(<<>>, closure)
        called == call_value(VMState(pushed, <<>>, objs, nid, <<>>), closure, 0)
    IN  /\ stack = called.stack
        /\ frames = called.frames
        /\ globals = globs
        /\ open_upvalues = <<>>
        /\ objects = called.objects
        /\ next_id = called.next_id
        /\ status = IF called.error # NoError THEN "panic" ELSE "running"
        /\ error = called.error
        /\ last = Executed("interpret", 0)
        /\ written = Track(objs, <<>>)
        /\ captured = {}
        /\ host_args = <<>>
        /\ inherited = {}

interpret(function) == interpret_on(function, <<>>, 0, EmptyMap)

Init == interpret(Script) /\ fuel = MaxSteps

InitShared == interpret(Script) /\ fuel = MaxSharedSteps

\* ------------------------------------------------------------- dispatch
\* The head of the loop of VM::run: an instruction is fetched from the top
\* frame's chunk and the frame's ip is incremented.  fuel is the number of
\* instructions the run may still execute.
Fetch == status = "running" /\ fuel > 0

Fetched(frs) == [frs EXCEPT ![Len(frs)].ip = @ + 1]

\* captured: the stack slots that hold a local some Closure instruction
\* captured (what the compiler marks is_captured).  The slot on top is one.
TopCaptured == (Len(stack) - 1) \in captured

Constant(v) ==
    /\ Fetch
    /\ Len(stack) < MaxStack
    /\ stack' = Push(stack, v)
    /\ frames' = Fetched(frames)
    /\ last' = Executed("Constant", 0)
    /\ fuel' = fuel - 1
    /\ UNCHANGED inherited
    /\ UNCHANGED <<open_upvalues, objects, next_id, status, written, captured>>
    /\ UNCHANGED <<globals, error, host_args>>

PushNil ==
    /\ Fetch
    /\ Len(stack) < MaxStack
    /\ stack' = Push(stack, Nil)
    /\ frames' = Fetched(frames)
    /\ last' = Executed("Nil", 0)
    /\ fuel' = fuel - 1
    /\ UNCHANGED inherited
    /\ UNCHANGED <<open_upvalues, objects, next_id, status, written, captured>>
    /\ UNCHANGED <<globals, error, host_args>>

\* well-formed: Pop discards a temporary or a local that no closure captured.
Pop ==
    /\ Fetch
    /\ Len(stack) > frame.base + 1
    /\ ~TopCaptured
    /\ stack' = PopSeq(stack)
    /\ frames' = Fetched(frames)
    /\ last' = Executed("Pop", 0)
    /\ fuel' = fuel - 1
    /\ UNCHANGED inherited
    /\ UNCHANGED <<open_upvalues, objects, next_id, status, written, captured>>
    /\ UNCHANGED <<globals, error, host_args>>

\* VM::get_local. well-formed: the slot exists.
GetLocal(index) ==
    /\ Fetch
    /\ Len(stack) < MaxStack
    /\ frame.base + index < Len(stack)
    /\ stack' = Push(stack, At(stack, frame.base + index))
    /\ frames' = Fetched(frames)
    /\ last' = Executed("GetLocal", index)
    /\ fuel' = fuel - 1
    /\ UNCHANGED inherited
    /\ UNCHANGED <<open_upvalues, objects, next_id, status, written, captured>>
    /\ UNCHANGED <<globals, error, host_args>>

\* VM::set_local. well-formed: the slot exists.
SetLocal(index) ==
    /\ Fetch
    /\ frame.base + index < Len(stack)
    /\ stack' = Put(stack, frame.base + index, At(stack, Len(stack) - 1))
    /\ frames' = Fetched(frames)
    /\ last' = Executed("SetLocal", index)
    /\ fuel' = fuel - 1
    /\ UNCHANGED inherited
    /\ written' = [c \in DOMAIN written |->
                      IF IsOpenAt(objects, c, frame.base + index)
                      THEN NoValue ELSE written[c]]
    /\ UNCHANGED <<open_upvalues, objects, next_id, status, captured>>
    /\ UNCHANGED <<globals, error, host_args>>

\* VM::get_upvalue. well-formed: the frame has an upvalue of that index.
GetUpvalue(index) ==
    /\ Fetch
    /\ Len(stack) < MaxStack
    /\ index < Len(frame.upvalues)
    /\ LET upvalue == objects[frame_get_upvalue(frame, index)]
       IN  \/ /\ upvalue.state = "Open"
              /\ upvalue.slot < Len(stack)
              /\ stack' = Push(stack, At(stack, upvalue.slot))
              /\ status' = status
           \/ /\ upvalue.state = "Open"
              /\ upvalue.slot >= Len(stack)
              /\ stack' = stack
              /\ status' = "panic"
           \/ /\ upvalue.state = "Closed"
              /\ stack' = Push(stack, upvalue.value)
              /\ status' = status
    /\ frames' = Fetched(frames)
    /\ last' = Executed("GetUpvalue", index)
    /\ fuel' = fuel - 1
    /\ UNCHANGED inherited
    /\ error' = IF status' = "panic" THEN IndexOutOfBounds ELSE error
    /\ UNCHANGED <<open_upvalues, objects, next_id, written, captured>>
    /\ UNCHANGED <<globals, host_args>>

\* set_upvalue on a Closed cell that drops the value.
set_closed_drops_value(objs, upvalue_ref, value) == objs

\* VM::set_upvalue, UpvalueRegistry::Closed: the value replaces the cell's.
set_closed(objs, upvalue_ref, value) ==
    [objs EXCEPT ![upvalue_ref] = Closed(value)]

\* VM::set_upvalue. well-formed: the frame has an upvalue of that index.
SetUpvalue(index) ==
    /\ Fetch
    /\ index < Len(frame.upvalues)
    /\ LET value == At(stack, Len(stack) - 1)
           upvalue_ref == frame_get_upvalue(frame, index)
           upvalue == objects[upvalue_ref]
       IN  \/ /\ upvalue.state = "Open"
              /\ upvalue.slot < Len(stack)
              /\ stack' = Put(stack, upvalue.slot, value)
              /\ written' = [written EXCEPT ![upvalue_ref] = value]
              /\ UNCHANGED <<objects, status>>
           \/ /\ upvalue.state = "Open"
              /\ upvalue.slot >= Len(stack)
              /\ status' = "panic"
              /\ UNCHANGED <<stack, objects, written>>
           \/ /\ upvalue.state = "Closed"
              /\ objects' = set_closed(objects, upvalue_ref, value)
              /\ written' = [written EXCEPT ![upvalue_ref] = value]
              /\ UNCHANGED <<stack, status>>
    /\ frames' = Fetched(frames)
    /\ last' = Executed("SetUpvalue", index)
    /\ fuel' = fuel - 1
    /\ UNCHANGED inherited
    /\ error' = IF status' = "panic" THEN IndexOutOfBounds ELSE error
    /\ UNCHANGED <<open_upvalues, next_id, captured>>
    /\ UNCHANGED <<globals, host_args>>

\* well-formed: every descriptor of the function names a slot of the
\* running frame or one of its upvalues.
Resolvable(function) ==
    \A k \in 1 .. Len(function.upvalues) :
        LET d == function.upvalues[k]
        IN  IF d.is_local
            THEN frame.base + d.index < Len(stack)
            ELSE d.index < Len(frame.upvalues)

\* VM::make_closure on the function constant read from the pool.
make_closure(function) ==
    LET made == ResolveUpvalues(function.upvalues, 1, <<>>,
                    [open_upvalues |-> open_upvalues, objects |-> objects,
                     next_id |-> next_id], frame)
    IN  /\ made.st.next_id <= MaxHeap
        /\ stack' = Push(stack, Closure(function, made.upvalues))
        /\ open_upvalues' = made.st.open_upvalues
        /\ objects' = made.st.objects
        /\ next_id' = made.st.next_id
        /\ written' = Track(made.st.objects, written)

MakeClosure(function) ==
    /\ Fetch
    /\ Len(stack) < MaxStack
    /\ Resolvable(function)
    /\ make_closure(function)
    /\ captured' = captured \cup
           { frame.base + function.upvalues[k].index :
               k \in { j \in 1 .. Len(function.upvalues) :
                           function.upvalues[j].is_local } }
    /\ frames' = Fetched(frames)
    /\ last' = Executed("Closure", 0)
    /\ fuel' = fuel - 1
    /\ UNCHANGED inherited
    /\ UNCHANGED <<status, globals, error, host_args>>

\* Instruction::CloseUpvalue. well-formed: it discards a captured local.
CloseUpvalue ==
    /\ Fetch
    /\ Len(stack) > frame.base + 1
    /\ TopCaptured
    /\ LET index == Len(stack) - 1
           closed == close_upvalues(open_upvalues, objects, stack, index)
       IN  /\ open_upvalues' = closed.open_upvalues
           /\ objects' = closed.objects
           /\ error' = IF closed.panic THEN closed.error ELSE error
           /\ \/ /\ ~closed.panic
                 /\ stack' = PopSeq(stack)
                 /\ status' = status
              \/ /\ closed.panic
                 /\ stack' = stack
                 /\ status' = "panic"
    /\ frames' = Fetched(frames)
    /\ captured' = captured \ {Len(stack) - 1}
    /\ last' = Executed("CloseUpvalue", 0)
    /\ fuel' = fuel - 1
    /\ UNCHANGED inherited
    /\ UNCHANGED <<next_id, written, globals, host_args>>

\* The state the handler of the fetched instruction starts from.
Running ==
    VMState(stack, Fetched(frames), objects, next_id, host_args)

\* The state the handler left: a panic ends the run.
Commit(vm) ==
    /\ stack' = vm.stack
    /\ frames' = vm.frames
    /\ objects' = vm.objects
    /\ next_id' = vm.next_id
    /\ host_args' = vm.host_args
    /\ error' = IF vm.error # NoError THEN vm.error ELSE error
    /\ status' = IF vm.error # NoError THEN "panic" ELSE status

\* Instruction::Call through VM::call_value_from_stack. well-formed: the
\* callee and its arguments are above the running frame's callee slot.
Call(arg_count) ==
    /\ Fetch
    /\ Len(frames) < MaxFrames
    /\ Len(stack) - arg_count - 1 > frame.base
    /\ LET called == call_value_from_stack(Running, arg_count)
       IN  /\ called.next_id <= MaxObjects
           /\ Commit(called)
    /\ last' = Executed("Call", arg_count)
    /\ fuel' = fuel - 1
    /\ UNCHANGED inherited
    /\ UNCHANGED <<globals, open_upvalues, written, captured>>

\* Return in the last frame without the pop of the sentinel.
last_return_keeps_sentinel(popped) == popped

\* Return to a caller without the truncation to base.
return_to_caller_no_truncate(popped, base, result) == Push(popped, result)

\* The value stack after Return in the last frame: the sentinel is popped.
last_return(popped) == PopSeq(popped)

\* The value stack after Return to a caller: truncate to base, push result.
return_to_caller(popped, base, result) == Push(Truncate(popped, base), result)

\* Instruction::Return. well-formed: the result is above the callee slot;
\* the top-level chunk returns at its end, where every block has discarded
\* its locals and only the result is above the sentinel.
Return ==
    /\ Fetch
    /\ Len(stack) >= frame.base + 2
    /\ Len(frames) = 1 => Len(stack) = 2
    /\ LET base == frame.base
           result == At(stack, Len(stack) - 1)
           popped == PopSeq(stack)
           closed == close_upvalues(open_upvalues, objects, popped, base)
           rest == PopSeq(Fetched(frames))
       IN  /\ open_upvalues' = closed.open_upvalues
           /\ objects' = closed.objects
           /\ error' = IF closed.panic THEN closed.error ELSE error
           /\ \/ /\ closed.panic
                 /\ stack' = popped
                 /\ frames' = Fetched(frames)
                 /\ status' = "panic"
              \/ /\ ~closed.panic
                 /\ rest = <<>>
                 /\ stack' = last_return(popped)
                 /\ frames' = rest
                 /\ status' = "done"
              \/ /\ ~closed.panic
                 /\ rest # <<>>
                 /\ stack' = return_to_caller(popped, base, result)
                 /\ frames' = rest
                 /\ status' = status
    /\ captured' = { slot \in captured : slot < frame.base }
    /\ last' = Executed("Return", 0)
    /\ fuel' = fuel - 1
    /\ UNCHANGED inherited
    /\ UNCHANGED <<next_id, written, globals, host_args>>

\* -------------------------------------------------- classes, instances
\* new_class without the increment of next_id.
new_class_same_id(objs, nid, class) ==
    [value |-> ClassValue(nid),
     objects |-> [i \in DOMAIN objs \cup {nid} |->
                     IF i = nid THEN class ELSE objs[i]],
     next_id |-> nid]

\* VM::new_class: the class value, the heap with the class and the counter.
new_class(objs, nid, class) ==
    [value |-> ClassValue(nid),
     objects |-> [i \in DOMAIN objs \cup {nid} |->
                     IF i = nid THEN class ELSE objs[i]],
     next_id |-> nid + 1]

\* The loop of Instruction::Inherit: every entry of other inserted into map.
InsertAll(map, other) ==
    [k \in DOMAIN map \cup DOMAIN other |->
        IF k \in DOMAIN other THEN other[k] ELSE map[k]]

\* Instruction::Inherit: the subclass is popped, the superclass stays.
inherit(vm) ==
    LET subclass_ref == At(vm.stack, Len(vm.stack) - 1)
        popped == [vm EXCEPT !.stack = PopSeq(vm.stack)]
        superclass_ref == At(popped.stack, Len(popped.stack) - 1)
    IN  IF subclass_ref.tag = "Class" /\ superclass_ref.tag = "Class"
        THEN LET superclass == popped.objects[superclass_ref.id]
             IN  [popped EXCEPT !.objects[subclass_ref.id].methods =
                     InsertAll(@, superclass.methods)]
        ELSE Fail(popped, SuperclassMustBeAClass)

\* define_method on one method table that all classes share.
define_method_every_class(vm, name) ==
    LET method == At(vm.stack, Len(vm.stack) - 1)
        popped == [vm EXCEPT !.stack = PopSeq(vm.stack)]
        class == At(popped.stack, Len(popped.stack) - 1)
    IN  IF class.tag = "Class"
        THEN [popped EXCEPT !.objects =
                 [id \in DOMAIN @ |->
                     IF @[id].kind = "Class"
                     THEN [@[id] EXCEPT !.methods = Insert(@, name, method)]
                     ELSE @[id]]]
        ELSE Fail(popped, ExpectedClass)

\* define_method that keeps an entry the class already has under that name.
define_method_keeps_entry(vm, name) ==
    LET method == At(vm.stack, Len(vm.stack) - 1)
        popped == [vm EXCEPT !.stack = PopSeq(vm.stack)]
        class == At(popped.stack, Len(popped.stack) - 1)
    IN  IF class.tag = "Class"
        THEN IF name \in DOMAIN popped.objects[class.id].methods
             THEN popped
             ELSE [popped EXCEPT !.objects[class.id].methods =
                      Insert(@, name, method)]
        ELSE Fail(popped, ExpectedClass)

\* VM::define_method: the method is popped and stored in the class below.
define_method(vm, name) ==
    LET method == At(vm.stack, Len(vm.stack) - 1)
        popped == [vm EXCEPT !.stack = PopSeq(vm.stack)]
        class == At(popped.stack, Len(popped.stack) - 1)
    IN  IF class.tag = "Class"
        THEN [popped EXCEPT !.objects[class.id].methods =
                 Insert(@, name, method)]
        ELSE Fail(popped, ExpectedClass)

\* VM::bind_method.
bind_method(vm, class_ref, instance, name) ==
    LET class == vm.objects[class_ref]
    IN  IF name \in DOMAIN class.methods
        THEN LET method == class.methods[name]
             IN  CASE method.tag = "Function" ->
                          [vm EXCEPT !.stack = Push(vm.stack,
                              BoundMethod(instance, method.function, <<>>))]
                   [] method.tag = "Closure" ->
                          [vm EXCEPT !.stack = Push(vm.stack,
                              BoundMethod(instance, method.function,
                                          method.upvalues))]
                   [] OTHER -> Fail(vm, ExpectedFunctionOrClosure)
        ELSE Fail(vm, UndefinedProperty)

\* get_property that binds the method without looking at the fields.
get_property_ignores_fields(vm, name) ==
    LET instance == At(vm.stack, Len(vm.stack) - 1)
        popped == [vm EXCEPT !.stack = PopSeq(vm.stack)]
    IN  IF instance.tag = "Instance"
        THEN bind_method(popped, popped.objects[instance.id].class,
                         instance.id, name)
        ELSE Fail(popped, OnlyInstancesHaveProperties)

\* VM::get_property.
get_property(vm, name) ==
    LET instance == At(vm.stack, Len(vm.stack) - 1)
        popped == [vm EXCEPT !.stack = PopSeq(vm.stack)]
    IN  IF instance.tag = "Instance"
        THEN LET object == popped.objects[instance.id]
             IN  IF name \in DOMAIN object.fields
                 THEN [popped EXCEPT
                          !.stack = Push(popped.stack, object.fields[name])]
                 ELSE bind_method(popped, object.class, instance.id, name)
        ELSE Fail(popped, OnlyInstancesHaveProperties)

\* VM::set_property.
set_property(vm, name) ==
    LET value == At(vm.stack, Len(vm.stack) - 1)
        instance == At(vm.stack, Len(vm.stack) - 2)
        popped == [vm EXCEPT !.stack = PopSeq(PopSeq(vm.stack))]
    IN  IF instance.tag = "Instance"
        THEN [popped EXCEPT
                 !.objects[instance.id].fields = Insert(@, name, value),
                 !.stack = Push(popped.stack, value)]
        ELSE Fail(popped, OnlyInstancesHaveFields)

\* VM::get_super: this is popped first, the superclass second.
get_super(vm, name) ==
    LET this_val == At(vm.stack, Len(vm.stack) - 1)
        super_val == At(vm.stack, Len(vm.stack) - 2)
        popped == [vm EXCEPT !.stack = PopSeq(PopSeq(vm.stack))]
    IN  IF super_val.tag = "Class" /\ this_val.tag = "Instance"
        THEN bind_method(popped, super_val.id, this_val.id, name)
        ELSE Fail(popped, SuperclassMustBeAClass)

\* VM::invoke_from_class.
invoke_from_class(vm, class_ref, method, arg_count) ==
    LET class == vm.objects[class_ref]
    IN  IF method \in DOMAIN class.methods
        THEN call_value(vm, class.methods[method], arg_count)
        ELSE Fail(vm, UndefinedProperty)

\* invoke looking in the class's method table before the instance's fields.
invoke_methods_first(vm, method, arg_count) ==
    LET receiver == At(vm.stack, Len(vm.stack) - 1 - arg_count)
    IN  IF receiver.tag = "Instance"
        THEN LET instance == vm.objects[receiver.id]
                 class == vm.objects[instance.class]
             IN  IF method \in DOMAIN class.methods
                 THEN call_value(vm, class.methods[method], arg_count)
                 ELSE IF method \in DOMAIN instance.fields
                 THEN LET l == Len(vm.stack)
                          replaced == [vm EXCEPT !.stack =
                                          Put(vm.stack, l - arg_count - 1,
                                              instance.fields[method])]
                      IN  call_value_from_stack(replaced, arg_count)
                 ELSE Fail(vm, UndefinedProperty)
        ELSE Fail(vm, OnlyInstancesHaveMethods)

\* VM::invoke.
invoke(vm, method, arg_count) ==
    LET receiver == At(vm.stack, Len(vm.stack) - 1 - arg_count)
    IN  IF receiver.tag = "Instance"
        THEN LET instance == vm.objects[receiver.id]
             IN  IF method \in DOMAIN instance.fields
                 THEN LET l == Len(vm.stack)
                          replaced == [vm EXCEPT !.stack =
                                          Put(vm.stack, l - arg_count - 1,
                                              instance.fields[method])]
                      IN  call_value_from_stack(replaced, arg_count)
                 ELSE invoke_from_class(vm, instance.class, method, arg_count)
        ELSE Fail(vm, OnlyInstancesHaveMethods)

\* SuperInvoke that looks the method up in the receiver's own class.
super_invoke_from_own_class(vm, name, arg_count) ==
    LET superclass == At(vm.stack, Len(vm.stack) - 1)
        popped == [vm EXCEPT !.stack = PopSeq(vm.stack)]
        receiver == At(popped.stack, Len(popped.stack) - 1 - arg_count)
    IN  IF superclass.tag = "Class"
        THEN invoke_from_class(popped, popped.objects[receiver.id].class,
                               name, arg_count)
        ELSE Fail(popped, OnlyClassesHaveSuperclass)

\* Instruction::SuperInvoke: the superclass is popped, the method is invoked
\* from it.
super_invoke(vm, name, arg_count) ==
    LET superclass == At(vm.stack, Len(vm.stack) - 1)
        popped == [vm EXCEPT !.stack = PopSeq(vm.stack)]
    IN  IF superclass.tag = "Class"
        THEN invoke_from_class(popped, superclass.id, name, arg_count)
        ELSE Fail(popped, OnlyClassesHaveSuperclass)

\* well-formed: the top count slots are temporaries, not captured locals,
\* and above the running frame's callee slot.
Temporaries(count) ==
    /\ Len(stack) - count > frame.base
    /\ \A i \in Len(stack) - count .. Len(stack) - 1 : i \notin captured

\* Instruction::Class.
MakeClass(name) ==
    /\ Fetch
    /\ Len(stack) < MaxStack
    /\ next_id < MaxObjects
    /\ LET new == new_class(objects, next_id, Class_new(name))
       IN  /\ stack' = Push(stack, new.value)
           /\ objects' = new.objects
           /\ next_id' = new.next_id
    /\ frames' = Fetched(frames)
    /\ last' = ExecutedNamed("Class", name, 0)
    /\ fuel' = fuel - 1
    /\ UNCHANGED inherited
    /\ UNCHANGED <<globals, open_upvalues, status, error, written, captured,
                   host_args>>

\* Instruction::Inherit. well-formed: subclass and superclass are on the
\* stack.
Inherit ==
    /\ Fetch
    /\ Temporaries(1)
    /\ Len(stack) - 2 > frame.base
    /\ Commit(inherit(Running))
    /\ inherited' = IF status' = "running"
                    THEN inherited \cup {<<At(stack, Len(stack) - 1).id,
                                           At(stack, Len(stack) - 2).id>>}
                    ELSE inherited
    /\ last' = Executed("Inherit", 0)
    /\ fuel' = fuel - 1
    /\ UNCHANGED <<globals, open_upvalues, written, captured>>

\* Instruction::Method. well-formed: a function or closure is on top, above
\* the slot of the class.
Method(name) ==
    /\ Fetch
    /\ Temporaries(1)
    /\ Len(stack) - 2 > frame.base
    /\ At(stack, Len(stack) - 1).tag \in {"Function", "Closure"}
    /\ Commit(define_method(Running, name))
    /\ last' = ExecutedNamed("Method", name, 0)
    /\ fuel' = fuel - 1
    /\ UNCHANGED inherited
    /\ UNCHANGED <<globals, open_upvalues, written, captured>>

\* Instruction::GetProperty.
GetProperty(name) ==
    /\ Fetch
    /\ Temporaries(1)
    /\ Commit(get_property(Running, name))
    /\ last' = ExecutedNamed("GetProperty", name, 0)
    /\ fuel' = fuel - 1
    /\ UNCHANGED inherited
    /\ UNCHANGED <<globals, open_upvalues, written, captured>>

\* Instruction::SetProperty.
SetProperty(name) ==
    /\ Fetch
    /\ Temporaries(2)
    /\ Commit(set_property(Running, name))
    /\ last' = ExecutedNamed("SetProperty", name, 0)
    /\ fuel' = fuel - 1
    /\ UNCHANGED inherited
    /\ UNCHANGED <<globals, open_upvalues, written, captured>>

\* Instruction::GetSuper.
GetSuper(name) ==
    /\ Fetch
    /\ Temporaries(2)
    /\ Commit(get_super(Running, name))
    /\ last' = ExecutedNamed("GetSuper", name, 0)
    /\ fuel' = fuel - 1
    /\ UNCHANGED inherited
    /\ UNCHANGED <<globals, open_upvalues, written, captured>>

\* Instruction::Invoke. well-formed: the receiver and its arguments are
\* above the running frame's callee slot.
Invoke(name, arg_count) ==
    /\ Fetch
    /\ Len(frames) < MaxFrames
    /\ Len(stack) - arg_count - 1 > frame.base
    /\ LET invoked == invoke(Running, name, arg_count)
       IN  /\ invoked.next_id <= MaxObjects
           /\ Commit(invoked)
    /\ last' = ExecutedNamed("Invoke", name, arg_count)
    /\ fuel' = fuel - 1
    /\ UNCHANGED inherited
    /\ UNCHANGED <<globals, open_upvalues, written, captured>>

\* Instruction::SuperInvoke. well-formed: the operand for the superclass is
\* on top, the receiver (this, an instance) and its arguments below it,
\* above the frame's callee slot.
SuperInvoke(name, arg_count) ==
    /\ Fetch
    /\ Len(frames) < MaxFrames
    /\ Temporaries(1)
    /\ Len(stack) - arg_count - 2 > frame.base
    /\ At(stack, Len(stack) - arg_count - 2).tag = "Instance"
    /\ LET invoked == super_invoke(Running, name, arg_count)
       IN  /\ invoked.next_id <= MaxObjects
           /\ Commit(invoked)
    /\ last' = ExecutedNamed("SuperInvoke", name, arg_count)
    /\ fuel' = fuel - 1
    /\ UNCHANGED inherited
    /\ UNCHANGED <<globals, open_upvalues, written, captured>>

\* --------------------------------------------------------------- globals
\* VM::get_global.
GetGlobal(name) ==
    /\ Fetch
    /\ Len(stack) < MaxStack
    /\ \/ /\ name \in DOMAIN globals
          /\ stack' = Push(stack, globals[name])
          /\ UNCHANGED <<status, error>>
       \/ /\ name \notin DOMAIN globals
          /\ status' = "panic"
          /\ error' = UndefinedVariable
          /\ UNCHANGED stack
    /\ frames' = Fetched(frames)
    /\ last' = ExecutedNamed("GetGlobal", name, 0)
    /\ fuel' = fuel - 1
    /\ UNCHANGED inherited
    /\ UNCHANGED <<globals, open_upvalues, objects, next_id, written, captured,
                   host_args>>

\* VM::define_global.
DefineGlobal(name) ==
    /\ Fetch
    /\ Temporaries(1)
    /\ stack' = PopSeq(stack)
    /\ globals' = Insert(globals, name, At(stack, Len(stack) - 1))
    /\ frames' = Fetched(frames)
    /\ last' = ExecutedNamed("DefineGlobal", name, 0)
    /\ fuel' = fuel - 1
    /\ UNCHANGED inherited
    /\ UNCHANGED <<open_upvalues, objects, next_id, status, error, written,
                   captured, host_args>>

\* set_global that binds the name whether or not it is defined.
set_global_defines(globs, name, value) ==
    [globals |-> Insert(globs, name, value), error |-> NoError]

\* VM::set_global on the map of globals: the map and the error raised.
set_global(globs, name, value) ==
    IF name \in DOMAIN globs
    THEN [globals |-> Insert(globs, name, value), error |-> NoError]
    ELSE [globals |-> globs, error |-> UndefinedVariable]

\* Instruction::SetGlobal: the top value is peeked, not popped.
SetGlobal(name) ==
    /\ Fetch
    /\ LET set == set_global(globals, name, At(stack, Len(stack) - 1))
       IN  /\ globals' = set.globals
           /\ error' = set.error
           /\ status' = IF set.error = NoError THEN status ELSE "panic"
    /\ frames' = Fetched(frames)
    /\ last' = ExecutedNamed("SetGlobal", name, 0)
    /\ fuel' = fuel - 1
    /\ UNCHANGED inherited
    /\ UNCHANGED <<stack, open_upvalues, objects, next_id, written, captured,
                   host_args>>

\* ----------------------------------------------------------------- jumps
\* Instruction::True and Instruction::False.
PushBoolean(b) ==
    /\ Fetch
    /\ Len(stack) < MaxStack
    /\ stack' = Push(stack, Boolean(b))
    /\ frames' = Fetched(frames)
    /\ last' = Executed(IF b THEN "True" ELSE "False", 0)
    /\ fuel' = fuel - 1
    /\ UNCHANGED inherited
    /\ UNCHANGED <<open_upvalues, objects, next_id, status, written, captured>>
    /\ UNCHANGED <<globals, error, host_args>>

\* Instruction::Jump on the ip the fetch has already incremented.
jump(ip, offset) == ip + offset

\* JumpIfFalse that jumps whatever the condition is.
jump_if_false_always(ip, offset, value) == ip + offset

\* Instruction::JumpIfFalse on the incremented ip and the peeked value.
jump_if_false(ip, offset, value) ==
    IF is_falsey(value) THEN ip + offset ELSE ip

\* Instruction::Loop on the incremented ip.
loop(ip, offset) == ip - offset

\* The frame stack with the running frame's ip replaced.
Jumped(frs, ip) == [frs EXCEPT ![Len(frs)].ip = ip]

Jump(offset) ==
    /\ Fetch
    /\ frames' = Jumped(frames, jump(frame.ip + 1, offset))
    /\ last' = Executed("Jump", offset)
    /\ fuel' = fuel - 1
    /\ UNCHANGED inherited
    /\ UNCHANGED <<stack, open_upvalues, objects, next_id, status, written,
                   captured, globals, error, host_args>>

JumpIfFalse(offset) ==
    /\ Fetch
    /\ frames' = Jumped(frames, jump_if_false(frame.ip + 1, offset,
                                              At(stack, Len(stack) - 1)))
    /\ last' = Executed("JumpIfFalse", offset)
    /\ fuel' = fuel - 1
    /\ UNCHANGED inherited
    /\ UNCHANGED <<stack, open_upvalues, objects, next_id, status, written,
                   captured, globals, error, host_args>>

\* well-formed: a loop jumps back to an instruction of the chunk, so the
\* offset is at most the incremented ip.
Loop(offset) ==
    /\ Fetch
    /\ offset <= frame.ip + 1
    /\ frames' = Jumped(frames, loop(frame.ip + 1, offset))
    /\ last' = Executed("Loop", offset)
    /\ fuel' = fuel - 1
    /\ UNCHANGED inherited
    /\ UNCHANGED <<stack, open_upvalues, objects, next_id, status, written,
                   captured, globals, error, host_args>>

\* ----------------------------------------------------------------- spec
Next ==
    \/ \E v \in ValueConstants : Constant(v)
    \/ PushNil
    \/ Pop
    \/ \E index \in LocalIndexes : GetLocal(index)
    \/ \E index \in LocalIndexes : SetLocal(index)
    \/ \E index \in UpvalueIndexes : GetUpvalue(index)
    \/ \E index \in UpvalueIndexes : SetUpvalue(index)
    \/ \E function \in FunctionConstants : MakeClosure(function)
    \/ CloseUpvalue
    \/ \E arg_count \in ArgCounts : Call(arg_count)
    \/ Return

Spec == Init /\ [][Next]_vars

\* The runs of SpecShared: one function constant, whose closures capture
\* the locals 2 and 1 of the frame that creates them, and one plain constant.
SharedFunction ==
    Function("b", 0, <<FunctionUpvalue(2, TRUE), FunctionUpvalue(1, TRUE)>>)

NextShared ==
    \/ Constant(Number(1))
    \/ PushNil
    \/ Pop
    \/ GetLocal(1)
    \/ SetLocal(1)
    \/ GetUpvalue(0)
    \/ SetUpvalue(0)
    \/ MakeClosure(SharedFunction)
    \/ CloseUpvalue
    \/ Call(0)
    \/ Return

SpecShared == InitShared /\ [][NextShared]_vars

\* The runs of SpecHeap: classes, their instances and closures that capture
\* the first local of the frame that creates them share the heap.
HeapFunction == Function("c", 0, <<FunctionUpvalue(1, TRUE)>>)

InitHeap == interpret(Script) /\ fuel = MaxHeapSteps

NextHeap ==
    \/ Constant(Number(1))
    \/ MakeClass("A")
    \/ MakeClosure(HeapFunction)
    \/ Call(0)
    \/ Pop

SpecHeap == InitHeap /\ [][NextHeap]_vars

\* The runs of SpecGlobals: two global names, defined, read and assigned in
\* every order, with the values 1 and Nil.
GlobalNames == {"x", "y"}

InitGlobals == interpret(Script) /\ fuel = MaxGlobalSteps

NextGlobals ==
    \/ Constant(Number(1))
    \/ PushNil
    \/ Pop
    \/ \E name \in GlobalNames : GetGlobal(name)
    \/ \E name \in GlobalNames : DefineGlobal(name)
    \/ \E name \in GlobalNames : SetGlobal(name)

SpecGlobals == InitGlobals /\ [][NextGlobals]_vars

\* The runs of SpecJumps: conditions of every truthiness under jumps forward
\* and back by up to MaxOffset.
Offsets == 0 .. MaxOffset

InitJumps == interpret(Script) /\ fuel = MaxJumpSteps

NextJumps ==
    \/ PushNil
    \/ PushBoolean(TRUE)
    \/ PushBoolean(FALSE)
    \/ Constant(Number(1))
    \/ Pop
    \/ \E offset \in Offsets : Jump(offset)
    \/ \E offset \in Offsets : JumpIfFalse(offset)
    \/ \E offset \in Offsets : Loop(offset)

SpecJumps == InitJumps /\ [][NextJumps]_vars

\* The runs of SpecClasses: one class, with or without the methods init (one
\* parameter) and m (none), its instances, and calls of the class, of its
\* bound methods and of its methods by name.
InitFunction == Function("init", 1, <<>>)

MethodFunction == Function("m", 0, <<>>)

InitClasses == interpret(Script) /\ fuel = MaxClassSteps

NextClasses ==
    \/ MakeClass("A")
    \/ Constant(Number(1))
    \/ Constant(FunctionValue(InitFunction))
    \/ Constant(FunctionValue(MethodFunction))
    \/ Method("init")
    \/ Method("m")
    \/ GetLocal(0)
    \/ GetLocal(1)
    \/ Pop
    \/ Call(0)
    \/ Call(1)
    \/ GetProperty("m")
    \/ Invoke("m", 0)
    \/ SuperInvoke("m", 0)
    \/ Return

SpecClasses == InitClasses /\ [][NextClasses]_vars

\* The runs of SpecProperties: one class with or without the method m (no
\* parameters), its instances with or without the field m (a function of
\* one parameter), and accesses and invocations of m.
InitProperties == interpret(Script) /\ fuel = MaxPropertySteps

NextProperties ==
    \/ MakeClass("A")
    \/ Constant(FunctionValue(InitFunction))
    \/ Constant(FunctionValue(MethodFunction))
    \/ Method("m")
    \/ GetLocal(1)
    \/ Pop
    \/ Call(0)
    \/ SetProperty("m")
    \/ GetProperty("m")
    \/ Invoke("m", 0)
    \/ Invoke("m", 1)

SpecProperties == InitProperties /\ [][NextProperties]_vars

\* The runs of SpecInherit: programs that declare a class B and then a class
\* A with or without a method m, where B may inherit from A and may override
\* m, with instances and accesses to m through an instance.
OverrideFunction == Function("override", 0, <<>>)

Declared(objs) == { id \in DOMAIN objs : objs[id].kind = "Class" }

InitInherit == interpret(Script) /\ fuel = MaxInheritSteps

NextInherit ==
    \/ Declared(objects) = {} /\ MakeClass("B")
    \/ Cardinality(Declared(objects)) = 1 /\ MakeClass("A")
    \/ Constant(FunctionValue(MethodFunction))
    \/ Constant(FunctionValue(OverrideFunction))
    \/ Method("m")
    \/ GetLocal(1)
    \/ Inherit
    \/ Call(0)
    \/ GetProperty("m")

SpecInherit == InitInherit /\ [][NextInherit]_vars

\* The runs of SpecSuper: two classes with or without their own method m,
\* instances, and invocations of m through a superclass operand.
InitSuper == interpret(Script) /\ fuel = MaxSuperSteps

NextSuper ==
    \/ MakeClass("A")
    \/ MakeClass("B")
    \/ Constant(FunctionValue(MethodFunction))
    \/ Constant(FunctionValue(OverrideFunction))
    \/ Method("m")
    \/ GetLocal(1)
    \/ Call(0)
    \/ SuperInvoke("m", 0)

SpecSuper == InitSuper /\ [][NextSuper]_vars

\* The runs of SpecNatives.  The host has registered built-ins before
\* interpret: the globals number and panic hold their native functions, the
\* global Map holds the class of make_map, which is the first heap object.
NativeHeap == new_class(<<>>, 0, make_map)

NativeGlobals ==
    Insert(Insert(Insert(EmptyMap,
        "number", NativeFunction("number")),
        "panic", NativeFunction("panic")),
        "Map", NativeHeap.value)

InitNatives ==
    /\ interpret_on(Script, NativeHeap.objects, NativeHeap.next_id,
                    NativeGlobals)
    /\ fuel = MaxNativeSteps

NextNatives ==
    \/ GetGlobal("number")
    \/ GetGlobal("panic")
    \/ GetGlobal("Map")
    \/ Constant(String("1"))
    \/ Constant(String("a"))
    \/ Constant(Number(1))
    \/ GetLocal(1)
    \/ Pop
    \/ Call(0)
    \/ Call(1)
    \/ Call(2)
    \/ Invoke("get", 1)
    \/ Invoke("get", 2)
    \/ Invoke("set", 2)
    \/ Invoke("set", 3)

SpecNatives == InitNatives /\ [][NextNatives]_vars

\* --------------------------------------------------------------- claims
\* The cells of the open-upvalue list, in list order.
OpenCell(k) == objects[open_upvalues[k]]

\* The cell ids the open list holds.
Listed(open) == { open[k] : k \in 1 .. Len(open) }

\* C1: a value stored by SetUpvalue through a cell that closures share is
\* what the next GetUpvalue through that cell pushes, while the captured
\* local is on the stack and after it has left the stack.
C1_WriteObservedByRead ==
    last.op = "GetUpvalue" =>
        LET c == frame.upvalues[last.n + 1]
        IN  written[c] # NoValue =>
                /\ status = "running"
                /\ At(stack, Len(stack) - 1) = written[c]

\* C2: between instructions every cell of the open-upvalue list is
\* Open(slot) with slot < stack.len().
C2_OpenSlotsOnStack ==
    status = "running" =>
        \A k \in 1 .. Len(open_upvalues) :
            /\ OpenCell(k).state = "Open"
            /\ OpenCell(k).slot < Len(stack)

\* C3: a CloseUpvalue or Return that completes closes every listed cell
\* whose slot is at or above the limit (the top slot, the frame's base) with
\* the value of its slot, removes exactly those cells from the list, and
\* leaves the cells below the limit Open and listed.
ClosesDownTo(limit, stk) ==
    \A c \in Listed(open_upvalues) :
        IF objects[c].slot >= limit
        THEN /\ objects'[c] = Closed(At(stk, objects[c].slot))
             /\ c \notin Listed(open_upvalues')
        ELSE /\ objects'[c] = objects[c]
             /\ c \in Listed(open_upvalues')

C3_ClosesAtOrAboveLimit ==
    [][/\ (last'.op = "CloseUpvalue" /\ status' = "running")
            => ClosesDownTo(Len(stack) - 1, stack)
       /\ (last'.op = "Return" /\ status' # "panic")
            => ClosesDownTo(frame.base, PopSeq(stack))]_vars

\* C4: the open-upvalue list is strictly descending by slot.
C4_StrictlyDescending ==
    \A j, k \in 1 .. Len(open_upvalues) :
        j < k => OpenCell(j).slot > OpenCell(k).slot

\* C5: no two cells of the open-upvalue list refer to the same stack slot,
\* and the closure a Closure instruction pushes holds, for every is_local
\* descriptor, the listed Open cell of the captured slot.
C5_OneCellPerSlot ==
    /\ \A j, k \in 1 .. Len(open_upvalues) :
          (j # k /\ OpenCell(j).state = "Open" /\ OpenCell(k).state = "Open")
              => OpenCell(j).slot # OpenCell(k).slot
    /\ (last.op = "Closure" /\ status = "running") =>
          LET closure == At(stack, Len(stack) - 1)
              upvals == closure.function.upvalues
          IN  \A k \in 1 .. Len(upvals) :
                  upvals[k].is_local =>
                      /\ closure.upvalues[k] \in Listed(open_upvalues)
                      /\ IsOpenAt(objects, closure.upvalues[k],
                                  frame.base + upvals[k].index)

\* A Closure instruction has reused the cell another closure on the stack
\* holds.
C5_Witness ==
    /\ last.op = "Closure"
    /\ \E i \in 0 .. Len(stack) - 2 :
          /\ At(stack, i).tag = "Closure"
          /\ \E j \in 1 .. Len(At(stack, i).upvalues) :
             \E k \in 1 .. Len(At(stack, Len(stack) - 1).upvalues) :
                 /\ At(stack, i).upvalues[j] = At(stack, Len(stack) - 1).upvalues[k]
                 /\ At(stack, Len(stack) - 1).function.upvalues[k].is_local

\* C6: a cell's state changes only from Open to Closed: a Closed cell stays
\* Closed, an Open cell stays as it is or becomes Closed.
C6_OpenToClosedOnly ==
    [][\A c \in DOMAIN objects :
          /\ objects[c].state = "Closed" => objects'[c].state = "Closed"
          /\ objects[c].state = "Open" =>
                (objects'[c] = objects[c] \/ objects'[c].state = "Closed")]_vars

\* SetUpvalue has stored through a Closed cell.
C6_Witness ==
    /\ last.op = "SetUpvalue"
    /\ status = "running"
    /\ objects[frame.upvalues[last.n + 1]].state = "Closed"

\* C7: every Closure value on the stack or in a closed cell has as many
\* upvalues as its function declares descriptors.
ClosureSized(v) ==
    v.tag = "Closure" => Len(v.upvalues) = Len(v.function.upvalues)

C7_UpvalueCount ==
    /\ \A i \in 1 .. Len(stack) : ClosureSized(stack[i])
    /\ \A c \in DOMAIN objects :
          objects[c].state = "Closed" => ClosureSized(objects[c].value)

\* A closure with an inherited (not is_local) upvalue is on the stack, and a
\* closure is held by a closed cell.
C7_Witness ==
    /\ \E i \in 1 .. Len(stack) :
          /\ stack[i].tag = "Closure"
          /\ \E k \in 1 .. Len(stack[i].function.upvalues) :
                ~stack[i].function.upvalues[k].is_local
    /\ \E c \in DOMAIN objects :
          objects[c].state = "Closed" /\ objects[c].value.tag = "Closure"

\* C8: a Return that completes in a frame that is not the last one leaves
\* the frame stack one shorter, the stack of length base + 1 with the result
\* at base, and the slots below base unchanged.  (A Return that panics in
\* close_upvalues ends the process and leaves no state to speak of: C3.)
C8_ReturnToCaller ==
    [][(last'.op = "Return" /\ status' # "panic" /\ Len(frames) > 1) =>
          /\ Len(frames') = Len(frames) - 1
          /\ Len(stack') = frame.base + 1
          /\ At(stack', frame.base) = At(stack, Len(stack) - 1)
          /\ \A i \in 0 .. frame.base - 1 : At(stack', i) = At(stack, i)]_vars

\* A frame with locals above its callee slot has returned to its caller.
C8_Witness ==
    /\ last.op = "Return"
    /\ status = "running"
    /\ frames # <<>>
    /\ Len(stack) >= 3

C10_CallPushesFrame ==
    [][last'.op = "Call" =>
          LET n == last'.n
              callee == At(stack, Len(stack) - 1 - n)
          IN  callee.tag \in {"Function", "Closure"} =>
                  IF callee.function.arity = n
                  THEN /\ frames' = Append(Fetched(frames),
                              CallFrame(callee.function, 0, Len(stack) - n - 1,
                                        IF callee.tag = "Closure"
                                        THEN callee.upvalues ELSE <<>>))
                       /\ stack' = stack
                       /\ status' = "running"
                  ELSE /\ status' = "panic"
                       /\ Len(frames') = Len(frames)
                       /\ stack' = stack]_vars

\* A call with one argument has pushed a frame.
C10_Witness ==
    /\ last.op = "Call"
    /\ last.n = 1
    /\ status = "running"
    /\ frame.ip = 0
    /\ frame.base = Len(stack) - 2

\* C11: Call(n) on a class allocates one instance of it and stores it in the
\* callee slot; with an init method of n parameters a frame for init is
\* pushed with base at that slot, with an init of another arity the call is
\* a fatal arity error; without init, n = 0 pushes no frame and n # 0 is a
\* fatal arity error.
C11_ClassCall ==
    [][last'.op = "Call" =>
          LET n == last'.n
              slot == Len(stack) - 1 - n
              callee == At(stack, slot)
          IN  callee.tag = "Class" =>
                  LET class == objects[callee.id]
                      id == next_id
                      arity_error == /\ status' = "panic"
                                     /\ error' = ArityMismatch
                                     /\ frames' = Fetched(frames)
                  IN  /\ id \notin DOMAIN objects
                      /\ DOMAIN objects' = DOMAIN objects \cup {id}
                      /\ \A i \in DOMAIN objects : objects'[i] = objects[i]
                      /\ objects'[id] = InstanceObject(callee.id, EmptyMap)
                      /\ stack' = Put(stack, slot, InstanceValue(id))
                      /\ IF "init" \in DOMAIN class.methods
                         THEN LET init == class.methods["init"]
                              IN  IF init.function.arity = n
                                  THEN /\ status' = "running"
                                       /\ frames' = Append(Fetched(frames),
                                              CallFrame(init.function, 0, slot,
                                                        <<>>))
                                  ELSE arity_error
                         ELSE IF n = 0
                              THEN /\ status' = "running"
                                   /\ frames' = Fetched(frames)
                              ELSE arity_error]_vars

\* A class with init has been called with one argument: the frame of init
\* is running with the new instance at its base.
C11_Witness ==
    /\ last.op = "Call"
    /\ last.n = 1
    /\ status = "running"
    /\ frame.function = InitFunction
    /\ frame.ip = 0
    /\ At(stack, frame.base).tag = "Instance"
    /\ objects[At(stack, frame.base).id].kind = "Instance"

\* C12: Call(n) on a native function pushes no frame, hands the host
\* function the n values above the callee in stack order, and when the host
\* function returns replaces the callee and the arguments by the returned
\* value, which leaves the stack n shorter.
C12_NativeCall ==
    [][last'.op = "Call" =>
          LET n == last'.n
              l == Len(stack)
              callee == At(stack, l - 1 - n)
          IN  callee.tag = "NativeFunction" =>
                  LET args == [i \in 1 .. n |-> At(stack, l - 1 - n + i)]
                      result == host_function(callee.function, args, Running)
                  IN  /\ host_args' = args
                      /\ frames' = Fetched(frames)
                      /\ IF result.vm.error = NoError
                         THEN /\ status' = "running"
                              /\ Len(stack') = l - n
                              /\ At(stack', l - n - 1) = result.value
                              /\ \A i \in 0 .. l - n - 2 :
                                    At(stack', i) = At(stack, i)
                         ELSE /\ status' = "panic"
                              /\ error' = result.vm.error]_vars

\* number has been called with two arguments and has returned the number
\* its last argument spells.
C12_Witness ==
    /\ last.op = "Call"
    /\ last.n = 2
    /\ status = "running"
    /\ host_args = <<String("a"), String("1")>>
    /\ At(stack, Len(stack) - 1) = Number(1)
    /\ Len(frames) = 1

\* C13: Invoke(k, n) on an instance ends in the same value stack, frame
\* stack and heap, or in the same error, as GetProperty(k) on the receiver
\* followed by the n arguments and Call(n); a field of that name is what
\* gets called, whether or not the class has a method of that name.  (The
\* caller's ip, which counts the instructions executed, is left aside.)
GetPropertyThenCall(name, n) ==
    LET l == Len(stack)
        args == SubSeq(stack, l - n + 1, l)
        got == get_property(
                   VMState(SubSeq(stack, 1, l - n), Fetched(frames), objects,
                           next_id, host_args),
                   name)
    IN  IF got.error # NoError
        THEN got
        ELSE call_value_from_stack([got EXCEPT !.stack = got.stack \o args], n)

SameOutcome(vm) ==
    IF vm.error # NoError
    THEN /\ status' = "panic"
         /\ error' = vm.error
    ELSE /\ status' = "running"
         /\ stack' = vm.stack
         /\ frames' = vm.frames
         /\ objects' = vm.objects
         /\ next_id' = vm.next_id

C14_GetProperty ==
    [][last'.op = "GetProperty" =>
          LET name == last'.name
              top == At(stack, Len(stack) - 1)
          IN  /\ objects' = objects
              /\ frames' = Fetched(frames)
              /\ IF top.tag # "Instance"
                 THEN /\ status' = "panic"
                      /\ error' = OnlyInstancesHaveProperties
                 ELSE LET instance == objects[top.id]
                          methods == objects[instance.class].methods
                      IN  IF name \in DOMAIN instance.fields
                          THEN /\ status' = "running"
                               /\ stack' = Push(PopSeq(stack),
                                                instance.fields[name])
                          ELSE IF name \in DOMAIN methods
                          THEN /\ status' = "running"
                               /\ stack' = Push(PopSeq(stack),
                                      BoundMethod(top.id,
                                          methods[name].function,
                                          IF methods[name].tag = "Closure"
                                          THEN methods[name].upvalues
                                          ELSE <<>>))
                          ELSE /\ status' = "panic"
                               /\ error' = UndefinedProperty]_vars

\* GetProperty has pushed the field of an instance whose class has a method
\* of the same name.
C14_Witness ==
    /\ last.op = "GetProperty"
    /\ status = "running"
    /\ At(stack, Len(stack) - 1) = FunctionValue(InitFunction)
    /\ \E id \in DOMAIN objects :
          /\ objects[id].kind = "Instance"
          /\ "m" \in DOMAIN objects[id].fields
          /\ objects[id].fields["m"] = FunctionValue(InitFunction)
          /\ "m" \in DOMAIN objects[objects[id].class].methods

\* C15: an Inherit that completes leaves in the subclass's method table
\* every entry of the superclass's table; a Method(k) on a class, also one
\* that inherited an entry k, makes the popped method its entry k and leaves
\* its other entries alone; and GetProperty(k) on an instance without a
\* field k binds the entry k of the instance's class.
C15_InheritThenOverride ==
    [][/\ (last'.op = "Inherit" /\ status' = "running") =>
             LET subclass == At(stack, Len(stack) - 1).id
                 superclass == At(stack, Len(stack) - 2).id
             IN  /\ \A k \in DOMAIN objects[superclass].methods :
                       /\ k \in DOMAIN objects'[subclass].methods
                       /\ objects'[subclass].methods[k] =
                              objects[superclass].methods[k]
                 /\ \A k \in DOMAIN objects[subclass].methods :
                       k \in DOMAIN objects'[subclass].methods
       /\ (last'.op = "Method" /\ status' = "running") =>
             LET class == At(stack, Len(stack) - 2).id
                 k == last'.name
             IN  /\ DOMAIN objects'[class].methods =
                        DOMAIN objects[class].methods \cup {k}
                 /\ objects'[class].methods[k] = At(stack, Len(stack) - 1)
                 /\ \A j \in DOMAIN objects[class].methods \ {k} :
                       objects'[class].methods[j] = objects[class].methods[j]
       /\ (last'.op = "GetProperty" /\ status' = "running"
               /\ last'.name \notin
                      DOMAIN objects[At(stack, Len(stack) - 1).id].fields) =>
             LET instance == objects[At(stack, Len(stack) - 1).id]
                 method == objects[instance.class].methods[last'.name]
             IN  At(stack', Len(stack') - 1).function = method.function]_vars

\* A class has inherited the method m, has then redefined it, and the lookup
\* of m on an instance of it has found the redefinition, while the
\* superclass's entry still is the inherited one.
C15_Witness ==
    /\ last.op = "GetProperty"
    /\ status = "running"
    /\ At(stack, Len(stack) - 1).tag = "BoundMethod"
    /\ At(stack, Len(stack) - 1).function = OverrideFunction
    /\ \E pair \in inherited :
          /\ objects[At(stack, Len(stack) - 1).receiver].class = pair[1]
          /\ "m" \in DOMAIN objects[pair[2]].methods
          /\ objects[pair[2]].methods["m"] = FunctionValue(MethodFunction)
          /\ objects[pair[1]].methods["m"] = FunctionValue(OverrideFunction)
          /\ pair[1] # pair[2]

\* C16: SuperInvoke(k, n) pops the superclass and calls the entry k of that
\* class's method table, whatever the receiver's own class has under k: a
\* method of n parameters gets a frame whose base is the receiver's slot,
\* with the receiver and the n arguments left as they were; a method of
\* another arity is a fatal arity error and a missing entry a fatal
\* undefined-property error.
C16_SuperInvoke ==
    [][last'.op = "SuperInvoke" =>
          LET n == last'.n
              name == last'.name
              superclass == At(stack, Len(stack) - 1)
              slot == Len(stack) - 2 - n
          IN  superclass.tag = "Class" =>
                  LET methods == objects[superclass.id].methods
                  IN  IF name \notin DOMAIN methods
                      THEN /\ status' = "panic"
                           /\ error' = UndefinedProperty
                           /\ frames' = Fetched(frames)
                      ELSE IF methods[name].function.arity # n
                      THEN /\ status' = "panic"
                           /\ error' = ArityMismatch
                           /\ frames' = Fetched(frames)
                      ELSE /\ status' = "running"
                           /\ stack' = PopSeq(stack)
                           /\ objects' = objects
                           /\ frames' = Append(Fetched(frames),
                                  CallFrame(methods[name].function, 0, slot,
                                            IF methods[name].tag = "Closure"
                                            THEN methods[name].upvalues
                                            ELSE <<>>))]_vars

\* SuperInvoke has pushed the frame of the superclass's method m for a
\* receiver whose own class has another method m.
C16_Witness ==
    /\ last.op = "SuperInvoke"
    /\ status = "running"
    /\ frame.function = MethodFunction
    /\ frame.ip = 0
    /\ At(stack, frame.base).tag = "Instance"
    /\ LET class == objects[objects[At(stack, frame.base).id].class]
       IN  /\ "m" \in DOMAIN class.methods
           /\ class.methods["m"] = FunctionValue(OverrideFunction)

\* C17: when a call of a bound method, a class call that runs init, or an
\* Invoke or SuperInvoke that dispatches to a method of a class pushes a
\* frame, the slot at the frame's base holds the receiver instance, and
\* GetLocal(0) pushes the value of the slot at the running frame's base.
Entered == frames'[Len(frames')]

C17_ReceiverAtBase ==
    [][/\ (last'.op \in {"Call", "Invoke", "SuperInvoke"}
              /\ status' = "running" /\ Len(frames') = Len(frames) + 1) =>
             LET n == last'.n
                 slot == IF last'.op = "SuperInvoke"
                         THEN Len(stack) - 2 - n ELSE Len(stack) - 1 - n
                 callee == At(stack, slot)
             IN  /\ Entered.base = slot
                 /\ (last'.op = "Call" /\ callee.tag = "BoundMethod") =>
                       At(stack', slot) = InstanceValue(callee.receiver)
                 /\ (last'.op = "Call" /\ callee.tag = "Class") =>
                       /\ At(stack', slot) = InstanceValue(next_id)
                       /\ objects'[next_id] = InstanceObject(callee.id, EmptyMap)
                 /\ (last'.op = "Invoke" /\ callee.tag = "Instance"
                         /\ last'.name \notin DOMAIN objects[callee.id].fields) =>
                       At(stack', slot) = callee
                 /\ last'.op = "SuperInvoke" =>
                       At(stack', slot) = callee /\ callee.tag = "Instance"
       /\ (last'.op = "GetLocal" /\ last'.n = 0) =>
             At(stack', Len(stack') - 1) = At(stack, frame.base)]_vars

\* In the frame of a bound method that was called, GetLocal(0) has pushed
\* the receiver instance.
C17_Witness ==
    /\ last.op = "GetLocal"
    /\ last.n = 0
    /\ Len(frames) = 2
    /\ frame.function = MethodFunction
    /\ frame.ip = 1
    /\ At(stack, Len(stack) - 1).tag = "Instance"
    /\ At(stack, frame.base) = At(stack, Len(stack) - 1)

\* C18: every key of the heap map is smaller than next_id in every state;
\* a step never removes or retypes an object, never lowers next_id, and the
\* ids it adds are exactly the values next_id went through, each of them
\* larger than every id present before; the class, the instance or the
\* cell a step creates carries the id next_id had before the step.
Allocated == DOMAIN objects' \ DOMAIN objects

C18_HeapIds ==
    /\ [](\A id \in DOMAIN objects : id < next_id)
    /\ [][/\ next_id' >= next_id
          /\ Allocated = next_id .. next_id' - 1
          /\ \A id \in Allocated : \A old \in DOMAIN objects : id > old
          /\ \A id \in DOMAIN objects :
                id \in DOMAIN objects' /\ objects'[id].kind = objects[id].kind
          /\ (last'.op = "Class") =>
                /\ next_id' = next_id + 1
                /\ At(stack', Len(stack') - 1) = ClassValue(next_id)
                /\ objects'[next_id].kind = "Class"
          /\ (last'.op = "Call" /\ status' = "running"
                 /\ At(stack, Len(stack) - 1 - last'.n).tag = "Class") =>
                /\ next_id' = next_id + 1
                /\ At(stack', Len(stack) - 1 - last'.n) = InstanceValue(next_id)
                /\ objects'[next_id].kind = "Instance"
          /\ (last'.op = "Closure") =>
                \A id \in Allocated : objects'[id].kind = "Upvalue"]_vars

\* A class, an instance and an upvalue cell live in the heap together.
C18_Witness ==
    /\ next_id = 3
    /\ DOMAIN objects = 0 .. 2
    /\ { objects[id].kind : id \in DOMAIN objects } =
           {"Class", "Instance", "Upvalue"}

\* C19: for an instance m of Map, Invoke("set", 2) with a string key hands
\* the host function m, the key and the value, stores the value under the
\* key and leaves Nil in place of m and the arguments; Invoke("get", 1) with
\* a string key hands the host function m and the key and leaves the stored
\* value, or Nil for a key never set.
IsMap(value) ==
    /\ value.tag = "Instance"
    /\ objects[value.id].class = NativeHeap.value.id

C19_MapSetThenGet ==
    [][(last'.op = "Invoke" /\ last'.name \in {"get", "set"}) =>
          LET n == last'.n
              l == Len(stack)
              m == At(stack, l - 1 - n)
              key == At(stack, l - n)
          IN  (IsMap(m) /\ key.tag = "String") =>
                 /\ (last'.name = "set" /\ n = 2) =>
                       /\ status' = "running"
                       /\ host_args' = <<m, key, At(stack, l - 1)>>
                       /\ stack' = Push(Truncate(stack, l - 3), Nil)
                       /\ key.s \in DOMAIN objects'[m.id].fields
                       /\ objects'[m.id].fields[key.s] = At(stack, l - 1)
                 /\ (last'.name = "get" /\ n = 1) =>
                       /\ status' = "running"
                       /\ host_args' = <<m, key>>
                       /\ stack' = Push(Truncate(stack, l - 2),
                             IF key.s \in DOMAIN objects[m.id].fields
                             THEN objects[m.id].fields[key.s] ELSE Nil)]_vars

\* C20: GetGlobal and SetGlobal of an undefined name end the run with the
\* undefined-variable error and leave the globals and the stack as they
\* were; GetGlobal of a defined name pushes its value; DefineGlobal pops the
\* top value and binds the name to it, defined before or not; SetGlobal of a
\* defined name binds it to the top value, which stays on the stack.  No
\* other name's binding changes.
OthersKept(name) ==
    \A other \in DOMAIN globals \ {name} :
        other \in DOMAIN globals' /\ globals'[other] = globals[other]

C20_Globals ==
    [][LET name == last'.name
           top == At(stack, Len(stack) - 1)
       IN  /\ (last'.op \in {"GetGlobal", "SetGlobal"}
                  /\ name \notin DOMAIN globals) =>
                 /\ status' = "panic"
                 /\ error' = UndefinedVariable
                 /\ name \notin DOMAIN globals'
                 /\ globals' = globals
                 /\ stack' = stack
           /\ (last'.op = "GetGlobal" /\ name \in DOMAIN globals) =>
                 /\ status' = "running"
                 /\ stack' = Push(stack, globals[name])
                 /\ globals' = globals
           /\ (last'.op = "DefineGlobal") =>
                 /\ status' = "running"
                 /\ stack' = PopSeq(stack)
                 /\ DOMAIN globals' = DOMAIN globals \cup {name}
                 /\ globals'[name] = top
                 /\ OthersKept(name)
           /\ (last'.op = "SetGlobal" /\ name \in DOMAIN globals) =>
                 /\ status' = "running"
                 /\ stack' = stack
                 /\ DOMAIN globals' = DOMAIN globals
                 /\ globals'[name] = top
                 /\ OthersKept(name)]_vars

\* With x and y defined, SetGlobal has bound x to the 1 that is still on top
\* of the stack, and y keeps its Nil.
C20_Witness ==
    /\ last.op = "SetGlobal"
    /\ last.name = "x"
    /\ status = "running"
    /\ DOMAIN globals = {"x", "y"}
    /\ globals["x"] = Number(1)
    /\ globals["y"] = Nil
    /\ stack = <<Closure(Script, <<>>), Number(1)>>

\* C21: with i the ip of the running frame when the instruction is fetched,
\* Jump(o) leaves it at i + 1 + o, Loop(o) at i + 1 - o, JumpIfFalse(o) at
\* i + 1 + o when the top of the stack is Nil or Boolean(false) and at i + 1
\* otherwise; none of the three changes the value stack or the number of
\* frames.
C21_Jumps ==
    [][last'.op \in {"Jump", "JumpIfFalse", "Loop"} =>
          LET i == frame.ip
              o == last'.n
              top == At(stack, Len(stack) - 1)
              after == frames'[Len(frames')].ip
          IN  /\ stack' = stack
              /\ Len(frames') = Len(frames)
              /\ status' = "running"
              /\ last'.op = "Jump" => after = i + 1 + o
              /\ last'.op = "Loop" => after = i + 1 - o
              /\ last'.op = "JumpIfFalse" =>
                    after = IF top \in {Nil, Boolean(FALSE)}
                            THEN i + 1 + o ELSE i + 1]_vars

\* JumpIfFalse(2), fetched at index 1 with Boolean(false) on top, has moved
\* the ip to 4 and the condition is still on the stack.
C21_Witness ==
    /\ last.op = "JumpIfFalse"
    /\ last.n = 2
    /\ frame.ip = 4
    /\ stack = <<Closure(Script, <<>>), Boolean(FALSE)>>

\* C22: while the VM has not panicked, an upvalue cell of the heap is Open
\* exactly when its id is in the open-upvalue list; a step that creates a
\* cell lists it, a step that closes a cell removes it from the list in the
\* same step, and no run ends in the panic "Expected open upvalue.".
OpenIffListed ==
    \A c \in DOMAIN objects :
        IsUpvalue(objects, c) =>
            (objects[c].state = "Open" <=> c \in Listed(open_upvalues))

C22_OpenIffListed ==
    /\ [](status # "panic" => OpenIffListed)
    /\ [](error # ExpectedOpenUpvalue)
    /\ [][status' # "panic" =>
             /\ \A c \in DOMAIN objects' \ DOMAIN objects :
                   IsUpvalue(objects', c) =>
                       /\ objects'[c].state = "Open"
                       /\ c \in Listed(open_upvalues')
             /\ \A c \in DOMAIN objects :
                   (IsUpvalue(objects, c) /\ objects[c].state = "Open"
                       /\ objects'[c].state = "Closed") =>
                       /\ c \in Listed(open_upvalues)
                       /\ c \notin Listed(open_upvalues')]_vars

\* A step has closed one cell and removed it from the list while another
\* cell stays Open and listed.
C22_Witness ==
    /\ status = "running"
    /\ last.op \in {"CloseUpvalue", "Return"}
    /\ \E c, d \in DOMAIN objects :
          /\ IsUpvalue(objects, c) /\ IsUpvalue(objects, d)
          /\ objects[c].state = "Closed" /\ c \notin Listed(open_upvalues)
          /\ objects[d].state = "Open" /\ d \in Listed(open_upvalues)

\* C23: in every state the bottom frame has base 0, the bases of the frames
\* are strictly increasing from the bottom frame to the top frame, and every
\* frame's base is smaller than the length of the value stack.  (Call is
\* enabled only with the callee above the running frame's base.)
C23_FrameBases ==
    frames # <<>> =>
        /\ frames[1].base = 0
        /\ \A j, k \in 1 .. Len(frames) :
              j < k => frames[j].base < frames[k].base
        /\ \A k \in 1 .. Len(frames) : frames[k].base < Len(stack)

\* A callee that sat above a local of the script runs, with a local of its
\* own above its slot.
C23_Witness ==
    /\ status = "running"
    /\ Len(frames) = 2
    /\ frames[1].base = 0
    /\ frames[2].base = 2
    /\ Len(stack) = 4

\* C24: an Inherit or a Method that completes changes the heap object of
\* the class it is applied to (the subclass) and no other: every other
\* class, the superclass among them, keeps its method table, and a lookup of
\* m in it by bind_method (GetProperty on its instances, GetSuper) or by
\* invoke_from_class (Invoke on its instances, SuperInvoke) finds what it
\* found before the step.
Bound(objs, class, name) ==
    LET found == bind_method(VMState(<<>>, <<>>, objs, next_id, <<>>),
                             class, class, name)
    IN  [stack |-> found.stack, error |-> found.error]

Invoked(objs, class, name) ==
    LET found == invoke_from_class(
                     VMState(<<Nil>>, <<>>, objs, next_id, <<>>),
                     class, name, 0)
    IN  [frames |-> found.frames, error |-> found.error]

C24_SuperclassUntouched ==
    [][(last'.op \in {"Inherit", "Method"} /\ status' = "running") =>
          LET subclass == IF last'.op = "Inherit"
                          THEN At(stack, Len(stack) - 1).id
                          ELSE At(stack, Len(stack) - 2).id
          IN  \A class \in Declared(objects) \ {subclass} :
                  /\ objects'[class] = objects[class]
                  /\ Bound(objects', class, "m") = Bound(objects, class, "m")
                  /\ Invoked(objects', class, "m") =
                         Invoked(objects, class, "m")]_vars

\* A subclass that inherited m has just overridden it, and the lookup of m
\* in its superclass still finds the method the superclass defined.
C24_Witness ==
    /\ last.op = "Method"
    /\ status = "running"
    /\ \E pair \in inherited :
          /\ pair[1] # pair[2]
          /\ At(stack, Len(stack) - 1) = ClassValue(pair[1])
          /\ "m" \in DOMAIN objects[pair[1]].methods
          /\ objects[pair[1]].methods["m"] = FunctionValue(OverrideFunction)
          /\ Bound(objects, pair[2], "m").stack =
                 <<BoundMethod(pair[2], MethodFunction, <<>>)>>
          /\ Invoked(objects, pair[2], "m").frames =
                 <<CallFrame(MethodFunction, 0, 0, <<>>)>>

\* C25: SetUpvalue through a Closed cell makes the top value the cell's
\* value and changes no stack slot and no other cell; GetUpvalue through a
\* Closed cell pushes the cell's value; and no other step (a push, a
\* SetLocal, a call, a return, a store through another cell) changes the
\* value of a Closed cell.
Through == frame_get_upvalue(frame, last'.n)

ClosedCells == { c \in DOMAIN objects :
                    IsUpvalue(objects, c) /\ objects[c].state = "Closed" }

C25_ClosedCellIndependent ==
    [][/\ (last'.op = "SetUpvalue" /\ Through \in ClosedCells) =>
             /\ status' = "running"
             /\ stack' = stack
             /\ objects'[Through] = Closed(At(stack, Len(stack) - 1))
             /\ \A c \in DOMAIN objects \ {Through} : objects'[c] = objects[c]
       /\ (last'.op = "GetUpvalue" /\ Through \in ClosedCells) =>
             /\ status' = "running"
             /\ stack' = Push(stack, objects[Through].value)
             /\ objects' = objects
       /\ \A c \in ClosedCells :
             objects'[c] # objects[c] =>
                 last'.op = "SetUpvalue" /\ Through = c]_vars

\* A closure returned by the function whose argument it captured runs: the
\* slot above its base, which the Closed cell used to alias, has been
\* reused by a Nil, and GetUpvalue has pushed the cell's 1.
C25_Witness ==
    /\ last.op = "GetUpvalue"
    /\ status = "running"
    /\ Len(frames) = 2
    /\ Len(stack) = frame.base + 3
    /\ objects[frame_get_upvalue(frame, last.n)] = Closed(Number(1))
    /\ At(stack, frame.base + 1) = Nil
    /\ At(stack, frame.base + 2) = Number(1)

====
